---------------------------- MODULE Spec2Model ----------------------------
(***************************************************************************)
(* The lap-data endpoint of the F1 Lap Replay API (src/src/main.py,        *)
(* get_lap_data): session loading with one retry, lap selection, telemetry *)
(* and position reconciliation, coordinate normalisation and response      *)
(* assembly, with the HTTP status each path ends in.                       *)
(*                                                                         *)
(* The data provider (fastf1) is outside the repository.  What it holds    *)
(* for the requested session is the variable provider, fixed when the      *)
(* request starts; each step of the handler reads the part it asks for.    *)
(*                                                                         *)
(* Values that pandas may report as missing (NaN / NaT) are modelled as    *)
(* sequences: <<>> is the missing value, <<n>> the number n.  Coordinates  *)
(* X, Y, Z are plain integers.  A quotient is the record [num, den].       *)
(* A frame is [columns, rows]; a row is [idx, val] with val a function     *)
(* from the frame's columns to values; the index of a frame is unique and  *)
(* ascending, as the provider's frames are.                                *)
(***************************************************************************)
EXTENDS Integers, Sequences, FiniteSets

VARIABLES
    pc,             \* position of the handler
    provider,       \* what the data provider answers for this session
    driver,         \* request: driver code
    lap_number,     \* request: <<>> when absent, <<n>> when supplied
    calls,          \* provider calls made so far, in order
    raised,         \* exceptions raised so far, in order (types)
    propagated,     \* the exception that left the handler's body, <<>> if none
    driver_laps,    \* laps of the driver (line 152)
    lap,            \* selected lap, <<>> until selected (lines 161-164)
    telemetry,      \* frame (line 175)
    pos_data,       \* frame (lines 192, 210)
    has_pos_data,   \* line 202 / 211
    merged_data,    \* frame (lines 188, 226)
    telemetry_points,
    track_info,
    status,         \* HTTP status of the response, 0 while running
    detail,         \* detail string of an error response
    response        \* the payload of a successful response, <<>> otherwise

vars == <<pc, provider, driver, lap_number, calls, raised, propagated,
          driver_laps, lap,
          telemetry, pos_data, has_pos_data, merged_data, telemetry_points,
          track_info, status, detail, response>>

-----------------------------------------------------------------------------
(* Bounds of the model *)

MaxLaps == 2
MaxLapNumber == 2
MaxLapTime == 2
MaxSamples == 2
MaxIdx == 2
MaxCoord == 1

-----------------------------------------------------------------------------
(* Values *)

NaN == <<>>

NotNa(v) == v # NaN

IsNa(v) == v = NaN

Dynamics == {"Speed", "Throttle", "Brake", "nGear", "RPM", "DRS", "Time"}

NoFrame == [columns |-> {}, rows |-> <<>>]

FrameEmpty(f) == Len(f.rows) = 0 \/ f.columns = {}

IdxSet(f) == {f.rows[k].idx : k \in 1..Len(f.rows)}

RowAt(f, i) == f.rows[CHOOSE k \in 1..Len(f.rows) : f.rows[k].idx = i].val

-----------------------------------------------------------------------------
(* Error texts the provider's load may fail with, and their characters *)

ErrorTexts ==
    {"Read Timeout", "timeout", "ErgastError", "ergast", "time out", "boom"}

StrChars(s) ==
    CASE s = "Read Timeout" ->
           <<"R", "e", "a", "d", " ", "T", "i", "m", "e", "o", "u", "t">>
      [] s = "timeout" -> <<"t", "i", "m", "e", "o", "u", "t">>
      [] s = "ErgastError" ->
           <<"E", "r", "g", "a", "s", "t", "E", "r", "r", "o", "r">>
      [] s = "ergast" -> <<"e", "r", "g", "a", "s", "t">>
      [] s = "time out" -> <<"t", "i", "m", "e", " ", "o", "u", "t">>
      [] s = "boom" -> <<"b", "o", "o", "m">>

\* str.lower(), one character
LowerChar(c) ==
    CASE c = "A" -> "a" [] c = "B" -> "b" [] c = "C" -> "c" [] c = "D" -> "d"
      [] c = "E" -> "e" [] c = "F" -> "f" [] c = "G" -> "g" [] c = "H" -> "h"
      [] c = "I" -> "i" [] c = "J" -> "j" [] c = "K" -> "k" [] c = "L" -> "l"
      [] c = "M" -> "m" [] c = "N" -> "n" [] c = "O" -> "o" [] c = "P" -> "p"
      [] c = "Q" -> "q" [] c = "R" -> "r" [] c = "S" -> "s" [] c = "T" -> "t"
      [] c = "U" -> "u" [] c = "V" -> "v" [] c = "W" -> "w" [] c = "X" -> "x"
      [] c = "Y" -> "y" [] c = "Z" -> "z"
      [] OTHER -> c

\* str(e).lower()
Lower(cs) == [k \in 1..Len(cs) |-> LowerChar(cs[k])]

\* sub in cs
Contains(cs, sub) ==
    \E s \in 0..(Len(cs) - Len(sub)) :
        \A k \in 1..Len(sub) : cs[s + k] = sub[k]

\* the test without .lower()
IsTransient_CaseSensitive(text) ==
    \/ Contains(StrChars(text), <<"e", "r", "g", "a", "s", "t">>)
    \/ Contains(StrChars(text), <<"t", "i", "m", "e", "o", "u", "t">>)

\* "ergast" in str(e).lower() or "timeout" in str(e).lower()
IsTransient(text) ==
    \/ Contains(Lower(StrChars(text)), <<"e", "r", "g", "a", "s", "t">>)
    \/ Contains(Lower(StrChars(text)), <<"t", "i", "m", "e", "o", "u", "t">>)

-----------------------------------------------------------------------------
(* Exceptions and the handler at the top of get_lap_data *)

HTTPException(code, text) ==
    [type |-> "HTTPException", status_code |-> code, detail |-> text]

PyException(type, text) == [type |-> type, status_code |-> 0, detail |-> text]

NoLapsDetail == "No laps found for driver"

NoLapTimeDetail == "Selected lap has no valid lap time"

NoTelemetryDetail == "No telemetry data available for this lap"

PosFetchDetail == "No position data available for this lap"

NoPositionDetail ==
    "No position data (X, Y coordinates) available for this lap. Try a different session (Qualifying often has better data)."

NoMergeDetail == "Could not merge telemetry with position data"

\* the handler without its "except HTTPException: raise" clause
TopLevelHandler_AlwaysWraps(e) == [status |-> 500, detail |-> e.detail]

\* except HTTPException: raise / except Exception as e: raise HTTPException(500, str(e))
TopLevelHandler(e) ==
    IF e.type = "HTTPException"
    THEN [status |-> e.status_code, detail |-> e.detail]
    ELSE [status |-> 500, detail |-> e.detail]

-----------------------------------------------------------------------------
(* Lap selection *)

\* f1_session.laps.pick_drivers(driver)
PickDrivers(laps, d) == SelectSeq(laps, LAMBDA l : l.Driver = d)

\* truth value of the optional lap_number in "if lap_number:"
Truthy(n) == n # <<>> /\ n[1] # 0

\* driver_laps[driver_laps['LapNumber'] == lap_number]
LapsWithNumber(laps, n) == SelectSeq(laps, LAMBDA l : l.LapNumber = n)

EmptyLap == [Driver |-> "", LapNumber |-> NaN, LapTime |-> NaN]

\* driver_laps.pick_fastest(): <<>> is None.  The lap with the smallest lap
\* time, missing lap times skipped, the first one on a tie; with no timed
\* lap the library returns None or an all-missing lap, depending on its
\* version (whenNone).
PickFastest(laps, whenNone) ==
    LET timed == {k \in 1..Len(laps) : NotNa(laps[k].LapTime)}
        best == {k \in timed :
                    \A j \in timed : laps[k].LapTime[1] <= laps[j].LapTime[1]}
    IN  IF timed = {}
        THEN IF whenNone = "None" THEN <<>> ELSE <<EmptyLap>>
        ELSE <<laps[CHOOSE k \in best : \A j \in best : k <= j]>>

\* the selection without the check of line 166
LapTimeIsNa_Never(l) == FALSE

\* pd.isna(lap['LapTime'])
LapTimeIsNa(l) == IsNa(l.LapTime)

-----------------------------------------------------------------------------
(* Reconciliation *)

\* the test without "not f.empty"
HasXY_NoEmptyCheck(f) == "X" \in f.columns /\ "Y" \in f.columns

\* not f.empty and 'X' in f.columns and 'Y' in f.columns
HasXY(f) == ~FrameEmpty(f) /\ "X" \in f.columns /\ "Y" \in f.columns

\* pos_columns, lines 222-224
PosColumns(tel, pos) ==
    IF "Distance" \in pos.columns /\ "Distance" \notin tel.columns
    THEN {"X", "Y", "Z", "Distance"}
    ELSE {"X", "Y", "Z"}

\* the suffixes pandas gives a column name both frames have
SuffixX(c) ==
    CASE c = "X" -> "X_x" [] c = "Y" -> "Y_x" [] c = "Z" -> "Z_x"
      [] c = "Distance" -> "Distance_x"

SuffixY(c) ==
    CASE c = "X" -> "X_y" [] c = "Y" -> "Y_y" [] c = "Z" -> "Z_y"
      [] c = "Distance" -> "Distance_y"

MergedRow(tcols, pcols, trow, prow) ==
    LET both == tcols \cap pcols
        left(c) == IF c \in both THEN SuffixX(c) ELSE c
        right(c) == IF c \in both THEN SuffixY(c) ELSE c
        names == {left(c) : c \in tcols} \cup {right(c) : c \in pcols}
    IN  [n \in names |->
            IF \E c \in tcols : left(c) = n
            THEN trow[CHOOSE c \in tcols : left(c) = n]
            ELSE prow[CHOOSE c \in pcols : right(c) = n]]

MergedColumns(tcols, pcols) ==
    LET both == tcols \cap pcols
    IN  {IF c \in both THEN SuffixX(c) ELSE c : c \in tcols}
        \cup {IF c \in both THEN SuffixY(c) ELSE c : c \in pcols}

\* the merge with how='left': telemetry samples without a position are padded
Merge_Outer(tel, pos, pcols) ==
    [columns |-> MergedColumns(tel.columns, pcols),
     rows |-> [k \in 1..Len(tel.rows) |->
                 [idx |-> tel.rows[k].idx,
                  val |-> MergedRow(tel.columns, pcols, tel.rows[k].val,
                             IF tel.rows[k].idx \in IdxSet(pos)
                             THEN RowAt(pos, tel.rows[k].idx)
                             ELSE [c \in pcols |-> IF c = "Distance" THEN NaN ELSE 0])]]]

\* telemetry.merge(pos_data[pos_columns], left_index=True, right_index=True,
\*                 how='inner'), for pos_columns all in pos_data
Merge(tel, pos, pcols) ==
    LET kept == SelectSeq(tel.rows, LAMBDA r : r.idx \in IdxSet(pos))
    IN  [columns |-> MergedColumns(tel.columns, pcols),
         rows |-> [k \in 1..Len(kept) |->
                     [idx |-> kept[k].idx,
                      val |-> MergedRow(tel.columns, pcols, kept[k].val,
                                        RowAt(pos, kept[k].idx))]]]

-----------------------------------------------------------------------------
(* Normalisation *)

Column(f, c) == {f.rows[k].val[c] : k \in 1..Len(f.rows)}

MinOf(S) == CHOOSE m \in S : \A v \in S : m <= v

MaxOf(S) == CHOOSE m \in S : \A v \in S : m >= v

\* the range without the guard for equal bounds
Range_Unguarded(lo, hi) == hi - lo

\* x_max - x_min if x_max != x_min else 1
Range(lo, hi) == IF hi # lo THEN hi - lo ELSE 1

\* float(v) if pd.notna(v) else 0.0  (also int(v) ... else 0)
OrZero(v) == IF NotNa(v) THEN v ELSE <<0>>

\* float(row['Time'].total_seconds()) if pd.notna(row['Time']) else 0.0;
\* the elapsed time is held in milliseconds
Seconds(v) ==
    IF NotNa(v) THEN [num |-> v[1], den |-> 1000] ELSE [num |-> 0, den |-> 1]

\* lines 258-262
DistanceVal(row, columns) ==
    IF "Distance" \in DOMAIN row /\ NotNa(row["Distance"])
    THEN row["Distance"]
    ELSE IF "Distance" \in columns THEN row["Distance"] ELSE <<0>>

\* lines 254-275
Point(row, columns, x_min, x_range, y_min, y_range) ==
    [x |-> [num |-> row["X"] - x_min, den |-> x_range],
     y |-> [num |-> row["Y"] - y_min, den |-> y_range],
     speed |-> OrZero(row["Speed"]),
     throttle |-> OrZero(row["Throttle"]),
     brake |-> OrZero(row["Brake"]),
     gear |-> OrZero(row["nGear"]),
     rpm |-> OrZero(row["RPM"]),
     drs |-> OrZero(row["DRS"]),
     distance |-> DistanceVal(row, columns),
     time |-> Seconds(row["Time"])]

\* the loop skipping samples without a speed
Points_DropIncomplete(f) ==
    LET x_min == MinOf(Column(f, "X"))
        x_max == MaxOf(Column(f, "X"))
        y_min == MinOf(Column(f, "Y"))
        y_max == MaxOf(Column(f, "Y"))
        kept == SelectSeq(f.rows, LAMBDA r : NotNa(r.val["Speed"]))
    IN  [k \in 1..Len(kept) |->
            Point(kept[k].val, f.columns, x_min, Range(x_min, x_max),
                  y_min, Range(y_min, y_max))]

\* lines 243-276, for a non-empty frame with columns X and Y
Points(f) ==
    LET x_min == MinOf(Column(f, "X"))
        x_max == MaxOf(Column(f, "X"))
        y_min == MinOf(Column(f, "Y"))
        y_max == MaxOf(Column(f, "Y"))
    IN  [k \in 1..Len(f.rows) |->
            Point(f.rows[k].val, f.columns, x_min, Range(x_min, x_max),
                  y_min, Range(y_min, y_max))]

\* float(merged_data['Distance'].max()): missing values are skipped
TotalDistance(f) ==
    IF "Distance" \notin f.columns
    THEN <<0>>
    ELSE LET ds == {d \in Column(f, "Distance") : NotNa(d)}
         IN  IF ds = {} THEN NaN
             ELSE CHOOSE d \in ds : \A e \in ds : d[1] >= e[1]

\* lines 283-290
TrackInfo(f, event) ==
    [name |-> event.EventName,
     location |-> event.Location,
     country |-> event.Country,
     x_bounds |-> [min |-> MinOf(Column(f, "X")), max |-> MaxOf(Column(f, "X"))],
     y_bounds |-> [min |-> MinOf(Column(f, "Y")), max |-> MaxOf(Column(f, "Y"))],
     total_distance |-> TotalDistance(f)]

-----------------------------------------------------------------------------
(* The handler, step by step.  Raise(e) is an exception leaving the body  *)
(* of get_lap_data: it reaches the handlers of lines 304-308.             *)

Raise(e) ==
    /\ propagated' = <<e>>
    /\ raised' = Append(raised, e.type)
    /\ status' = TopLevelHandler(e).status
    /\ detail' = TopLevelHandler(e).detail
    /\ pc' = "done"

\* lines 139-149, first attempt and the classification of its failure
LoadSession ==
    /\ pc = "load"
    /\ calls' = Append(calls, "load")
    /\ IF provider.load1 = "ok"
       THEN /\ pc' = "laps"
            /\ UNCHANGED <<raised, propagated, status, detail>>
       ELSE IF IsTransient(provider.load1)
            THEN /\ pc' = "retry"
                 /\ raised' = Append(raised, "LoadError")
                 /\ UNCHANGED <<propagated, status, detail>>
            ELSE Raise(PyException("LoadError", provider.load1))
    /\ UNCHANGED <<provider, driver, lap_number, driver_laps, lap, telemetry,
                   pos_data, has_pos_data, merged_data, telemetry_points,
                   track_info, response>>

\* lines 146-147, the reduced second attempt
RetryLoad ==
    /\ pc = "retry"
    /\ calls' = Append(calls, "load")
    /\ IF provider.load2 = "ok"
       THEN /\ pc' = "laps"
            /\ UNCHANGED <<raised, propagated, status, detail>>
       ELSE Raise(PyException("LoadError", provider.load2))
    /\ UNCHANGED <<provider, driver, lap_number, driver_laps, lap, telemetry,
                   pos_data, has_pos_data, merged_data, telemetry_points,
                   track_info, response>>

\* lines 152-158
PickDriverLaps ==
    /\ pc = "laps"
    /\ calls' = Append(calls, "pick_drivers")
    /\ driver_laps' = PickDrivers(provider.laps, driver)
    /\ IF Len(driver_laps') = 0
       THEN Raise(HTTPException(404, NoLapsDetail))
       ELSE /\ pc' = "select"
            /\ UNCHANGED <<raised, propagated, status, detail>>
    /\ UNCHANGED <<provider, driver, lap_number, lap, telemetry,
                   pos_data, has_pos_data, merged_data, telemetry_points,
                   track_info, response>>

\* lines 161-170
SelectLap ==
    /\ pc = "select"
    /\ LET byNumber == LapsWithNumber(driver_laps, lap_number)
           fastest == PickFastest(driver_laps, provider.whenNone)
       IN  IF Truthy(lap_number)
           THEN /\ calls' = calls
                /\ IF Len(byNumber) = 0
                   THEN /\ lap' = lap
                        /\ Raise(PyException("IndexError",
                              "single positional indexer is out-of-bounds"))
                   ELSE /\ lap' = <<byNumber[1]>>
                        /\ IF LapTimeIsNa(byNumber[1])
                           THEN Raise(HTTPException(404, NoLapTimeDetail))
                           ELSE /\ pc' = "telemetry"
                                /\ UNCHANGED <<raised, propagated, status, detail>>
           ELSE /\ calls' = Append(calls, "pick_fastest")
                /\ lap' = fastest
                /\ IF fastest = <<>>
                   THEN Raise(PyException("TypeError",
                              "'NoneType' object is not subscriptable"))
                   ELSE IF LapTimeIsNa(fastest[1])
                        THEN Raise(HTTPException(404, NoLapTimeDetail))
                        ELSE /\ pc' = "telemetry"
                             /\ UNCHANGED <<raised, propagated, status, detail>>
    /\ UNCHANGED <<provider, driver, lap_number, driver_laps, telemetry,
                   pos_data, has_pos_data, merged_data, telemetry_points,
                   track_info, response>>

\* lines 175-188
GetTelemetry ==
    /\ pc = "telemetry"
    /\ calls' = Append(calls, "get_telemetry")
    /\ IF provider.tel.raises
       THEN /\ Raise(PyException("DataError", "telemetry not loaded"))
            /\ UNCHANGED <<telemetry, merged_data>>
       ELSE /\ telemetry' = provider.tel.frame
            /\ IF FrameEmpty(telemetry')
               THEN /\ Raise(HTTPException(404, NoTelemetryDetail))
                    /\ UNCHANGED merged_data
               ELSE /\ UNCHANGED <<raised, propagated, status, detail>>
                    /\ IF "X" \in telemetry'.columns /\ "Y" \in telemetry'.columns
                       THEN merged_data' = telemetry' /\ pc' = "merged"
                       ELSE merged_data' = merged_data /\ pc' = "pos"
    /\ UNCHANGED <<provider, driver, lap_number, driver_laps, lap,
                   pos_data, has_pos_data, telemetry_points,
                   track_info, response>>

\* lines 191-202
GetPosData ==
    /\ pc = "pos"
    /\ calls' = Append(calls, "get_pos_data")
    /\ IF provider.pos.raises
       THEN /\ propagated' = <<HTTPException(404, PosFetchDetail)>>
            /\ raised' = raised \o <<"DataError", "HTTPException">>
            /\ status' = TopLevelHandler(HTTPException(404, PosFetchDetail)).status
            /\ detail' = TopLevelHandler(HTTPException(404, PosFetchDetail)).detail
            /\ pc' = "done"
            /\ UNCHANGED <<pos_data, has_pos_data>>
       ELSE /\ pos_data' = provider.pos.frame
            /\ has_pos_data' = HasXY(pos_data')
            /\ pc' = IF has_pos_data' THEN "merge" ELSE "car"
            /\ UNCHANGED <<raised, propagated, status, detail>>
    /\ UNCHANGED <<provider, driver, lap_number, driver_laps, lap, telemetry,
                   merged_data, telemetry_points, track_info, response>>

\* lines 204-219
GetCarData ==
    /\ pc = "car"
    /\ calls' = Append(calls, "get_car_data")
    /\ IF provider.car.raises
       THEN /\ propagated' = <<HTTPException(404, NoPositionDetail)>>
            /\ raised' = raised \o <<"DataError", "HTTPException">>
            /\ status' = TopLevelHandler(HTTPException(404, NoPositionDetail)).status
            /\ detail' = TopLevelHandler(HTTPException(404, NoPositionDetail)).detail
            /\ pc' = "done"
            /\ UNCHANGED <<pos_data, has_pos_data>>
       ELSE IF HasXY(provider.car.frame)
            THEN /\ pos_data' = provider.car.frame
                 /\ has_pos_data' = TRUE
                 /\ pc' = "merge"
                 /\ UNCHANGED <<raised, propagated, status, detail>>
            ELSE /\ Raise(HTTPException(404, NoPositionDetail))
                 /\ UNCHANGED <<pos_data, has_pos_data>>
    /\ UNCHANGED <<provider, driver, lap_number, driver_laps, lap, telemetry,
                   merged_data, telemetry_points, track_info, response>>

\* lines 221-231
MergeStreams ==
    /\ pc = "merge"
    /\ IF ~(PosColumns(telemetry, pos_data) \subseteq pos_data.columns)
       THEN /\ Raise(PyException("KeyError", "\"['Z'] not in index\""))
            /\ UNCHANGED merged_data
       ELSE /\ merged_data' =
                 Merge(telemetry, pos_data, PosColumns(telemetry, pos_data))
            /\ pc' = "merged"
            /\ UNCHANGED <<raised, propagated, status, detail>>
    /\ UNCHANGED <<provider, driver, lap_number, calls, driver_laps, lap,
                   telemetry, pos_data, has_pos_data, telemetry_points,
                   track_info, response>>

\* lines 233-237
CheckMerged ==
    /\ pc = "merged"
    /\ IF FrameEmpty(merged_data)
       THEN Raise(HTTPException(404, NoMergeDetail))
       ELSE /\ pc' = "normalize"
            /\ UNCHANGED <<raised, propagated, status, detail>>
    /\ UNCHANGED <<provider, driver, lap_number, calls, driver_laps, lap,
                   telemetry, pos_data, has_pos_data, merged_data,
                   telemetry_points, track_info, response>>

\* lines 239-276
Normalize ==
    /\ pc = "normalize"
    /\ IF "X" \notin merged_data.columns
       THEN /\ Raise(PyException("KeyError", "'X'"))
            /\ UNCHANGED telemetry_points
       ELSE IF "Y" \notin merged_data.columns
            THEN /\ Raise(PyException("KeyError", "'Y'"))
                 /\ UNCHANGED telemetry_points
            ELSE /\ telemetry_points' = Points(merged_data)
                 /\ pc' = "respond"
                 /\ UNCHANGED <<raised, propagated, status, detail>>
    /\ UNCHANGED <<provider, driver, lap_number, calls, driver_laps, lap,
                   telemetry, pos_data, has_pos_data, merged_data,
                   track_info, response>>

\* str(lap['LapTime'])
Str(v) == [str |-> v]

\* lines 278-302
Respond ==
    /\ pc = "respond"
    /\ track_info' = <<TrackInfo(merged_data, provider.event)>>
    /\ response' = <<[driver |-> driver,
                      lap_number |-> lap[1].LapNumber[1],
                      lap_time |-> Str(lap[1].LapTime),
                      telemetry |-> telemetry_points,
                      track_info |-> track_info'[1]]>>
    /\ status' = 200
    /\ pc' = "done"
    /\ UNCHANGED <<provider, driver, lap_number, calls, raised, propagated,
                   driver_laps, lap, telemetry, pos_data, has_pos_data,
                   merged_data, telemetry_points, detail>>

Next ==
    \/ LoadSession
    \/ RetryLoad
    \/ PickDriverLaps
    \/ SelectLap
    \/ GetTelemetry
    \/ GetPosData
    \/ GetCarData
    \/ MergeStreams
    \/ CheckMerged
    \/ Normalize
    \/ Respond

-----------------------------------------------------------------------------
(* What the provider may hold: laps, frames, failures *)

Event ==
    [EventName |-> "Bahrain Grand Prix", Location |-> "Sakhir",
     Country |-> "Bahrain"]

Drivers == {"VER", "HAM"}

LapRecs ==
    [Driver : Drivers,
     LapNumber : {<<n>> : n \in 1..MaxLapNumber},
     LapTime : {NaN} \cup {<<t>> : t \in 1..MaxLapTime}]

\* the laps of a session: each driver's lap numbers ascend
LapSeqs ==
    {ls \in UNION {[1..n -> LapRecs] : n \in 0..MaxLaps} :
        \A j, k \in 1..Len(ls) :
            (j < k /\ ls[j].Driver = ls[k].Driver)
                => ls[j].LapNumber[1] < ls[k].LapNumber[1]}

LapNumbers == {<<>>} \cup {<<n>> : n \in 0..(MaxLapNumber + 1)}

\* ascending, duplicate-free indexes
AscIdx ==
    {is \in UNION {[1..n -> 0..MaxIdx] : n \in 0..MaxSamples} :
        \A k \in 1..(Len(is) - 1) : is[k] < is[k + 1]}

RangeIdx(n) == [k \in 1..n |-> k - 1]

Coord == (0 - MaxCoord)..MaxCoord

TelVal(c, i, x, y, nans) ==
    IF c = "X" THEN x
    ELSE IF c = "Y" THEN y
    ELSE IF c = "Z" THEN 0
    ELSE IF c \in nans THEN NaN
    ELSE IF c = "Time" THEN <<500 * (i + 1)>>
    ELSE IF c = "Distance" THEN <<10 * (i + 1)>>
    ELSE <<i + 1>>

\* a telemetry frame: the dynamics columns and the columns extra; row k has
\* index is[k], coordinates xs[k], ys[k] and the fields nans[k] missing
TelFrame(extra, is, xs, ys, nans) ==
    [columns |-> Dynamics \cup extra,
     rows |-> [k \in 1..Len(is) |->
                 [idx |-> is[k],
                  val |-> [c \in Dynamics \cup extra |->
                             TelVal(c, is[k], xs[k], ys[k], nans[k])]]]]

PosVal(c, i, x, y, d) ==
    IF c = "X" THEN x
    ELSE IF c = "Y" THEN y
    ELSE IF c = "Z" THEN 0
    ELSE IF c = "Distance" THEN d
    ELSE <<i>>

\* a position or car-data frame: a Date column and the columns extra
PosFrame(extra, is, xs, ys, ds) ==
    [columns |-> {"Date"} \cup extra,
     rows |-> [k \in 1..Len(is) |->
                 [idx |-> is[k],
                  val |-> [c \in {"Date"} \cup extra |->
                             PosVal(c, is[k], xs[k], ys[k], ds[k])]]]]

IdxAsX(is) == [k \in 1..Len(is) |-> is[k]]

IdxAsY(is) == [k \in 1..Len(is) |-> 0 - is[k]]

NoNans(is) == [k \in 1..Len(is) |-> {}]

IdxAsDist(is) == [k \in 1..Len(is) |-> <<7 * (is[k] + 1)>>]

LeanTel(extra, is) == TelFrame(extra, is, IdxAsX(is), IdxAsY(is), NoNans(is))

LeanPos(extra, is) == PosFrame(extra, is, IdxAsX(is), IdxAsY(is), IdxAsDist(is))

Answer(f) == [raises |-> FALSE, frame |-> f]

Raising == [raises |-> TRUE, frame |-> NoFrame]

World(l1, l2, laps, whenNone, tel, pos, car) ==
    [load1 |-> l1, load2 |-> l2, event |-> Event, laps |-> laps,
     whenNone |-> whenNone, tel |-> tel, pos |-> pos, car |-> car]

GoodLaps == <<[Driver |-> "VER", LapNumber |-> <<1>>, LapTime |-> <<1>>]>>

GoodTel == Answer(LeanTel({"X", "Y", "Distance"}, RangeIdx(MaxSamples)))

GoodPos == Answer(LeanPos({"X", "Y", "Z"}, RangeIdx(MaxSamples)))

\* a request: what the provider holds and the lap_number of the query
Request(w, n) == provider = w /\ lap_number = n

\* every outcome of the two load attempts
LoadWorlds ==
    \E l1 \in {"ok"} \cup ErrorTexts, l2 \in {"ok", "boom", "timeout"} :
        Request(World(l1, l2, GoodLaps, "None", GoodTel, GoodPos, GoodPos), <<>>)

\* every session of laps, every lap_number
LapWorlds ==
    \/ \E n \in LapNumbers \ {<<>>, <<0>>} :
          \E ls \in LapSeqs, wn \in {"None", "EmptyLap"} :
              Request(World("ok", "ok", ls, wn, GoodTel, GoodPos, GoodPos), n)
    \/ \E n \in {<<>>, <<0>>} :
          \E ls \in LapSeqs, wn \in {"None", "EmptyLap"} :
              Request(World("ok", "ok", ls, wn, GoodTel, GoodPos, GoodPos), n)

\* every path through the reconciliation
PathWorlds ==
    LET tels == {Raising, Answer(LeanTel({}, <<>>)),
                 Answer(LeanTel({"X", "Y"}, <<0>>)),
                 Answer(LeanTel({}, <<0>>)),
                 Answer(LeanTel({"X"}, <<0>>))}
        poss == {Raising, Answer(LeanPos({}, <<>>)),
                 Answer(LeanPos({"X", "Y", "Z"}, <<0>>)),
                 Answer(LeanPos({"X", "Y"}, <<0>>)),
                 Answer(LeanPos({"X", "Y", "Z"}, <<1>>))}
        cars == {Raising, Answer(LeanPos({}, <<0>>)),
                 Answer(LeanPos({"X", "Y", "Z"}, <<0>>))}
    IN  \E t \in tels, p \in poss, c \in cars :
            Request(World("ok", "ok", GoodLaps, "None", t, p, c), <<>>)

\* every choice of columns in the three streams
ColumnWorlds ==
    LET telIdx == {<<>>, RangeIdx(MaxSamples)}
        posIdx == {<<>>, RangeIdx(MaxSamples), <<MaxIdx>>}
        tels == {Answer(LeanTel(cs, is)) :
                    cs \in SUBSET {"X", "Y", "Z", "Distance"}, is \in telIdx}
        poss == {Raising} \cup
                {Answer(LeanPos(cs, is)) :
                    cs \in SUBSET {"X", "Y", "Z", "Distance"}, is \in posIdx}
        dull == {Raising, Answer(LeanPos({}, <<0>>)),
                 Answer(LeanPos({"X", "Y", "Z"}, <<>>))}
    IN  \/ \E t \in tels, p \in poss :
              Request(World("ok", "ok", GoodLaps, "None", t, p, GoodPos), <<>>)
        \/ \E t \in tels, p \in dull, c \in poss :
              Request(World("ok", "ok", GoodLaps, "None", t, p, c), <<>>)

\* every pair of indexes of the telemetry and the position stream
IndexWorlds ==
    \E tc \in {{}, {"Distance"}}, ti \in AscIdx,
       pc_ \in {{}, {"Distance"}}, pi \in AscIdx :
        Request(World("ok", "ok", GoodLaps, "None",
                      Answer(LeanTel(tc, ti)),
                      Answer(LeanPos({"X", "Y", "Z"} \cup pc_, pi)),
                      Raising), <<>>)

\* telemetry that carries X and Y, every choice of coordinates
CoordWorlds ==
    \E n \in 1..MaxSamples :
        \E xs \in [1..n -> Coord], ys \in [1..n -> Coord] :
            Request(World("ok", "ok", GoodLaps, "None",
                          Answer(TelFrame({"X", "Y", "Distance"}, RangeIdx(n),
                                          xs, ys, NoNans(RangeIdx(n)))),
                          GoodPos, GoodPos), <<>>)

\* position streams to merge, every choice of coordinates
PosCoordWorlds ==
    \E n \in 1..MaxSamples :
        \E xs \in [1..n -> Coord], ys \in [1..n -> Coord] :
            Request(World("ok", "ok", GoodLaps, "None",
                          Answer(LeanTel({}, RangeIdx(MaxSamples))),
                          Answer(PosFrame({"X", "Y", "Z"}, RangeIdx(n), xs, ys,
                                          IdxAsDist(RangeIdx(n)))),
                          GoodPos), <<>>)

\* at most one field missing in each sample
NanChoices == {{}} \cup {{c} : c \in Dynamics \cup {"Distance"}}

\* telemetry that carries X and Y, every choice of missing fields
NanWorlds ==
    \E n \in 1..MaxSamples :
        \E nans \in [1..n -> NanChoices], cs \in {{}, {"Distance"}} :
            Request(World("ok", "ok", GoodLaps, "None",
                          Answer(TelFrame({"X", "Y"} \cup cs, RangeIdx(n),
                                          IdxAsX(RangeIdx(n)),
                                          IdxAsY(RangeIdx(n)), nans)),
                          GoodPos, GoodPos), <<>>)

\* position streams to merge, the distance missing in any of their samples
PosDistWorlds ==
    \E n \in 1..MaxSamples :
        \E tc \in {{}, {"Distance"}}, pc_ \in {{}, {"Distance"}},
           nans \in [1..n -> {{}, {"Distance"}, {"nGear"}}],
           ds \in [1..n -> {NaN, <<5>>}] :
            Request(World("ok", "ok", GoodLaps, "None",
                          Answer(TelFrame(tc, RangeIdx(n), IdxAsX(RangeIdx(n)),
                                          IdxAsY(RangeIdx(n)), nans)),
                          Answer(PosFrame({"X", "Y", "Z"} \cup pc_, RangeIdx(n),
                                          IdxAsX(RangeIdx(n)),
                                          IdxAsY(RangeIdx(n)), ds)),
                          GoodPos), <<>>)

\* the handler before its first step
Start ==
    /\ pc = "load"
    /\ driver = "VER"
    /\ calls = <<>>
    /\ raised = <<>>
    /\ propagated = <<>>
    /\ driver_laps = <<>>
    /\ lap = <<>>
    /\ telemetry = NoFrame
    /\ pos_data = NoFrame
    /\ has_pos_data = FALSE
    /\ merged_data = NoFrame
    /\ telemetry_points = <<>>
    /\ track_info = <<>>
    /\ status = 0
    /\ detail = ""
    /\ response = <<>>

\* requests that differ in how the session loads, which laps it has and
\* which columns and indexes its streams have
Init ==
    /\ \/ LapWorlds
       \/ LoadWorlds
       \/ PathWorlds
       \/ ColumnWorlds
       \/ IndexWorlds
    /\ Start

Spec == Init /\ [][Next]_vars

\* requests that differ in the values of the samples
InitNormalize ==
    /\ \/ LoadWorlds
       \/ PathWorlds
       \/ CoordWorlds
       \/ PosCoordWorlds
       \/ NanWorlds
       \/ PosDistWorlds
    /\ Start

SpecNormalize == InitNormalize /\ [][Next]_vars

-----------------------------------------------------------------------------
(* Vocabulary of the properties, stated on the provider's data and on what *)
(* the handler has done                                                    *)

Called(c) == \E k \in 1..Len(calls) : calls[k] = c

Loads == Cardinality({k \in 1..Len(calls) : calls[k] = "load"})

\* the error texts that name a timeout or the upstream result service,
\* whatever their case
TransientText(t) == t \in {"Read Timeout", "timeout", "ErgastError", "ergast"}

\* a source yields X and Y: fetching it succeeds, it has samples and both columns
Yields(src) ==
    /\ ~src.raises
    /\ Len(src.frame.rows) > 0
    /\ {"X", "Y"} \subseteq src.frame.columns

\* the telemetry was fetched, has samples, and lacks X or Y
LacksXY ==
    /\ Called("get_telemetry")
    /\ ~provider.tel.raises
    /\ Len(provider.tel.frame.rows) > 0
    /\ ~({"X", "Y"} \subseteq provider.tel.frame.columns)

\* the telemetry was fetched, has samples, and carries X and Y
CarriesXY ==
    /\ Called("get_telemetry")
    /\ ~provider.tel.raises
    /\ Len(provider.tel.frame.rows) > 0
    /\ {"X", "Y"} \subseteq provider.tel.frame.columns

\* the laps the provider holds for the requested driver
LapsOfDriver ==
    {provider.laps[k] : k \in {j \in 1..Len(provider.laps) :
                                  provider.laps[j].Driver = driver}}

\* the merge of lines 226-231 was carried out
MergePerformed == has_pos_data /\ merged_data.columns # {}

-----------------------------------------------------------------------------
\* C1: a lap_number that is supplied and matches none of the laps of a
\* driver who has laps ends the request in 404, never in 500 and never in
\* a payload for another lap.
C1_NoMatchIsNotFound ==
    (/\ pc = "done"
     /\ Called("pick_drivers")
     /\ LapsOfDriver # {}
     /\ lap_number # <<>>
     /\ \A l \in LapsOfDriver : l.LapNumber # lap_number)
        => status = 404

-----------------------------------------------------------------------------
\* C2 as stated: with telemetry lacking X or Y the position stream is
\* consulted first and the car-data stream second, the first that yields X
\* and Y is used, and when neither yields them (empty, a column missing, or
\* the fetch raising) the request ends in 404 with the advice to try
\* another session.
C2_FallbackAsStated ==
    (pc = "done" /\ LacksXY) =>
        /\ Called("get_pos_data")
        /\ Yields(provider.pos) =>
              /\ has_pos_data /\ pos_data = provider.pos.frame
              /\ ~Called("get_car_data")
        /\ (~Yields(provider.pos) /\ Yields(provider.car)) =>
              /\ has_pos_data /\ pos_data = provider.car.frame
        /\ (~Yields(provider.pos) /\ ~Yields(provider.car)) =>
              /\ status = 404 /\ detail = NoPositionDetail

\* C2 amended: the same, except that a position fetch that raises ends the
\* request at once in 404 "No position data available for this lap",
\* without consulting the car-data stream; the advice to try another
\* session is given when the position fetch succeeds and neither stream
\* yields X and Y.
C2_Fallback ==
    (pc = "done" /\ LacksXY) =>
        /\ calls[Len(calls)] \in {"get_pos_data", "get_car_data"}
        /\ Called("get_car_data") =>
              calls[Len(calls) - 1] = "get_pos_data"
        /\ Yields(provider.pos) =>
              /\ has_pos_data /\ pos_data = provider.pos.frame
              /\ ~Called("get_car_data")
        /\ (~provider.pos.raises /\ ~Yields(provider.pos)
               /\ Yields(provider.car)) =>
              /\ has_pos_data /\ pos_data = provider.car.frame
        /\ (~provider.pos.raises /\ ~Yields(provider.pos)
               /\ ~Yields(provider.car)) =>
              /\ Called("get_car_data")
              /\ status = 404 /\ detail = NoPositionDetail
        /\ provider.pos.raises =>
              /\ ~Called("get_car_data")
              /\ status = 404 /\ detail = PosFetchDetail

\* the position stream lacks X or Y and the car-data fetch raises
C2_Witness ==
    /\ pc = "done" /\ LacksXY
    /\ ~provider.pos.raises /\ ~Yields(provider.pos)
    /\ provider.car.raises
    /\ status = 404 /\ detail = NoPositionDetail

-----------------------------------------------------------------------------
\* C3: at most two load attempts; the second is made exactly when the first
\* failed with a text naming a timeout or the result service; any other
\* first failure, and a failure of the second attempt, end the request in
\* 500 with the error's text, and nothing after the load is executed.
C3_LoadAttempts ==
    /\ Loads <= 2
    /\ Loads = 2 <=>
          /\ pc \notin {"load", "retry"}
          /\ provider.load1 # "ok" /\ TransientText(provider.load1)
    /\ pc = "retry" => Loads = 1
    /\ (pc # "load" /\ provider.load1 # "ok"
           /\ ~TransientText(provider.load1)) =>
          /\ pc = "done" /\ status = 500 /\ detail = provider.load1
          /\ calls = <<"load">>
          /\ driver_laps = <<>> /\ lap = <<>> /\ response = <<>>
    /\ (pc \notin {"load", "retry"} /\ provider.load1 # "ok"
           /\ TransientText(provider.load1) /\ provider.load2 # "ok") =>
          /\ pc = "done" /\ status = 500 /\ detail = provider.load2
          /\ calls = <<"load", "load">>
          /\ driver_laps = <<>> /\ lap = <<>> /\ response = <<>>

\* a timeout, then a second failure
C3_Witness ==
    /\ pc = "done" /\ status = 500
    /\ provider.load1 = "Read Timeout" /\ provider.load2 = "boom"
    /\ calls = <<"load", "load">>

-----------------------------------------------------------------------------
-----------------------------------------------------------------------------
(* The not-found conditions of the pipeline *)

NotFoundReasons ==
    /\ (Called("pick_drivers") /\ LapsOfDriver = {}) =>
          status = 404 /\ detail = NoLapsDetail
    /\ (lap # <<>> /\ IsNa(lap[1].LapTime)) =>
          status = 404 /\ detail = NoLapTimeDetail
    /\ (Called("get_telemetry") /\ ~provider.tel.raises
           /\ Len(provider.tel.frame.rows) = 0) =>
          status = 404 /\ detail = NoTelemetryDetail
    /\ (Called("get_car_data") /\ ~Yields(provider.car)) =>
          status = 404 /\ detail = NoPositionDetail
    /\ (MergePerformed /\ Len(merged_data.rows) = 0) =>
          status = 404 /\ detail = NoMergeDetail

\* C5 as stated: every not-found condition reaches the boundary as 404 with
\* its reason, and every exception that is not a NotFound yields 500.
C5_ErrorsAsStated ==
    pc = "done" =>
        /\ NotFoundReasons
        /\ (\E k \in 1..Len(raised) : raised[k] # "HTTPException")
              => status = 500

\* C5 amended: every not-found condition reaches the boundary as 404 with
\* its reason; the status is 500 exactly when an exception that is not an
\* HTTPException leaves the body of the handler, and the detail is then its
\* text.  (A transient first load failure, a failing position fetch and a
\* failing car-data fetch are caught inside the body.)
C5_Errors ==
    pc = "done" =>
        /\ NotFoundReasons
        /\ status \in {200, 404, 500}
        /\ status = 500 <=>
              (propagated # <<>> /\ propagated[1].type # "HTTPException")
        /\ status = 500 => detail = propagated[1].detail
        /\ status = 200 <=> propagated = <<>>

\* a session with laps, none of them the driver's
C5_Witness ==
    /\ pc = "done"
    /\ Called("pick_drivers") /\ LapsOfDriver = {} /\ Len(provider.laps) > 0
    /\ status = 404 /\ detail = NoLapsDetail

-----------------------------------------------------------------------------
\* C6: in a successful response every field of every point is a defined
\* number, and a field whose source value is missing is 0; a sample whose
\* Distance is missing has distance 0.
C6_FieldsDefined ==
    status = 200 =>
        \A k \in 1..Len(telemetry_points) :
            LET p == telemetry_points[k]
                row == merged_data.rows[k].val
            IN  /\ p.x.den # 0 /\ p.y.den # 0 /\ p.time.den # 0
                /\ \A v \in {p.speed, p.throttle, p.brake, p.gear, p.rpm,
                             p.drs, p.distance} : v # NaN
                /\ IsNa(row["Speed"]) => p.speed = <<0>>
                /\ IsNa(row["Throttle"]) => p.throttle = <<0>>
                /\ IsNa(row["Brake"]) => p.brake = <<0>>
                /\ IsNa(row["nGear"]) => p.gear = <<0>>
                /\ IsNa(row["RPM"]) => p.rpm = <<0>>
                /\ IsNa(row["DRS"]) => p.drs = <<0>>
                /\ IsNa(row["Time"]) => p.time.num = 0
                /\ ("Distance" \notin DOMAIN row \/ IsNa(row["Distance"]))
                      => p.distance = <<0>>

-----------------------------------------------------------------------------
(* One axis of the normalisation: the raw values vs, the quotients qs and *)
(* the bounds reported                                                     *)

AxisNormalised(vs, qs) ==
    /\ Len(qs) = Len(vs)
    /\ \A k \in 1..Len(vs) :
          /\ qs[k].den >= 1
          /\ 0 <= qs[k].num /\ qs[k].num <= qs[k].den
          /\ (\A j \in 1..Len(vs) : vs[k] <= vs[j]) => qs[k].num = 0
          /\ ((\A j \in 1..Len(vs) : vs[k] >= vs[j])
                 /\ (\E j \in 1..Len(vs) : vs[j] # vs[k]))
                => qs[k].num = qs[k].den
          /\ (\A j \in 1..Len(vs) : vs[j] = vs[k])
                => qs[k].den = 1 /\ qs[k].num = 0

AxisBounds(vs, b) ==
    /\ \E k \in 1..Len(vs) : vs[k] = b.min
    /\ \E k \in 1..Len(vs) : vs[k] = b.max
    /\ \A k \in 1..Len(vs) : b.min <= vs[k] /\ vs[k] <= b.max

RawX == [k \in 1..Len(merged_data.rows) |-> merged_data.rows[k].val["X"]]

RawY == [k \in 1..Len(merged_data.rows) |-> merged_data.rows[k].val["Y"]]

\* C7: on each axis every normalised coordinate lies in [0, 1], the minimum
\* maps to 0 and, unless all values are equal, the maximum to 1; when all
\* are equal the range is 1 and every coordinate 0; x_bounds and y_bounds
\* are the raw minimum and maximum.
C7_UnitSquare ==
    /\ pc = "respond" =>
          /\ AxisNormalised(RawX, [k \in 1..Len(telemetry_points) |->
                                      telemetry_points[k].x])
          /\ AxisNormalised(RawY, [k \in 1..Len(telemetry_points) |->
                                      telemetry_points[k].y])
    /\ status = 200 =>
          /\ AxisNormalised(RawX, [k \in 1..Len(response[1].telemetry) |->
                                      response[1].telemetry[k].x])
          /\ AxisNormalised(RawY, [k \in 1..Len(response[1].telemetry) |->
                                      response[1].telemetry[k].y])
          /\ AxisBounds(RawX, response[1].track_info.x_bounds)
          /\ AxisBounds(RawY, response[1].track_info.y_bounds)

\* a response whose X values differ and whose Y values are all equal
C7_Witness ==
    /\ status = 200
    /\ Len(merged_data.rows) >= 2
    /\ \E j, k \in 1..Len(RawX) : RawX[j] < RawX[k]
    /\ \A j, k \in 1..Len(RawY) : RawY[j] = RawY[k]

-----------------------------------------------------------------------------
\* C8: a merged stream has a sample for an index only if the telemetry and
\* the chosen position stream both have it, with the values of those two
\* samples, and has at most as many samples as either stream.
C8_InnerJoin ==
    MergePerformed =>
        /\ Len(merged_data.rows) <= Len(telemetry.rows)
        /\ Len(merged_data.rows) <= Len(pos_data.rows)
        /\ \A k \in 1..Len(merged_data.rows) :
              LET r == merged_data.rows[k]
              IN  /\ r.idx \in IdxSet(telemetry) \cap IdxSet(pos_data)
                  /\ \A c \in Dynamics :
                        r.val[c] = RowAt(telemetry, r.idx)[c]
                  /\ "Z" \in DOMAIN r.val
                        => r.val["Z"] = RowAt(pos_data, r.idx)["Z"]
                  /\ "Y" \in DOMAIN r.val
                        => r.val["Y"] = RowAt(pos_data, r.idx)["Y"]

\* a merge that drops samples of both streams
C8_Witness ==
    /\ MergePerformed
    /\ Len(merged_data.rows) >= 1
    /\ Len(merged_data.rows) < Len(telemetry.rows)
    /\ Len(merged_data.rows) < Len(pos_data.rows)

-----------------------------------------------------------------------------
\* C9: the points are the reconciled samples, one for one and in order; when
\* the telemetry carries X and Y no position source is fetched, nothing is
\* merged, and a successful response has as many points as the telemetry
\* has samples.
C9_OnePointPerSample ==
    /\ (pc = "respond" \/ status = 200) =>
          /\ Len(telemetry_points) = Len(merged_data.rows)
          /\ \A k \in 1..Len(merged_data.rows) :
                LET row == merged_data.rows[k].val
                    p == telemetry_points[k]
                IN  /\ p.speed = IF IsNa(row["Speed"]) THEN <<0>> ELSE row["Speed"]
                    /\ p.time.num = IF IsNa(row["Time"]) THEN 0 ELSE row["Time"][1]
    /\ CarriesXY =>
          /\ ~Called("get_pos_data") /\ ~Called("get_car_data")
          /\ ~MergePerformed
          /\ merged_data = provider.tel.frame
          /\ status = 200 =>
                Len(response[1].telemetry) = Len(provider.tel.frame.rows)

\* a response for telemetry that carries X and Y, one sample without a speed
C9_Witness ==
    /\ status = 200 /\ CarriesXY
    /\ Len(response[1].telemetry) >= 2
    /\ \E k \in 1..Len(merged_data.rows) : IsNa(merged_data.rows[k].val["Speed"])

-----------------------------------------------------------------------------
\* C10: once a position source yields X and Y for telemetry that lacks
\* them, the request ends in a payload or in 404 "could not merge", never
\* in 500, whether or not that source has a Z column.
C10_MergeCompletes ==
    (pc = "done" /\ LacksXY /\ has_pos_data) =>
        \/ status = 200
        \/ status = 404 /\ detail = NoMergeDetail

=============================================================================
